---- MODULE Spec2Model ----
(***************************************************************************)
(* Cross-validation splitters of gamma.ml.validation (_validation.py):     *)
(* BootstrapCV, StationaryBootstrapCV (driver _BaseBootstrapCV.split) and  *)
(* CircularCV.                                                             *)
(*                                                                         *)
(* Floats are exact rationals [num, den]; den = 0 encodes the IEEE         *)
(* specials (num > 0: +inf, num < 0: -inf, num = 0: NaN).  For every       *)
(* parameter value enumerated below the double-precision results of the    *)
(* code's expressions (n / n_splits, n * test_ratio, int(.), 1.0 / m,      *)
(* u <= p) equal the exact rational results.                               *)
(*                                                                         *)
(* numpy's RandomState is a stream determined by its seed: a generator is  *)
(* [seed, pos], its k-th raw output is a fixed function of (seed, k).      *)
(* The global generator used for random_state=None is seeded from system   *)
(* entropy: each of its draws is an arbitrary value.                       *)
(***************************************************************************)
EXTENDS Integers, Sequences, FiniteSets, TLC

\* ---------------------------------------------------------------- bounds
MaxN == 3
MaxSplits == 2
MaxSeed == 1
MaxPos == 8
MaxCircN == 6
MaxCircSplits == 3

\* ------------------------------------------------ the random generator
\* raw outputs are 0 .. Resolution-1: uniform() = raw / Resolution,
\* randint(n) = floor(n * raw / Resolution)
Resolution == 4
StateMod == 16

RawVals == 0 .. (Resolution - 1)

Lcg(x) == (5 * x + 3) % StateMod

RECURSIVE LcgAt(_, _)
LcgAt(seed, pos) == IF pos = 0 THEN seed % StateMod ELSE Lcg(LcgAt(seed, pos - 1))

\* generator ids: the caller's RandomState object, the objects created by
\* check_random_state(int) in invocation 1 and 2, numpy's global generator
ExtObj == 0
Entropy == 3
NoGen == 4
Invocations == {1, 2}

Unseeded == [seed |-> -1, pos |-> 0]
RandomState(seed) == [seed |-> seed % StateMod, pos |-> 0]

\* the k-th raw output of the stream seeded with seed (k >= 1)
RawAt(seed, k) == LcgAt(seed, k) \div (StateMod \div Resolution)

\* the next len raw outputs generator id can deliver under heap h: the one
\* continuation of a seeded stream, any values for the entropy-seeded one
Oracles(id, h, len) ==
    IF id = Entropy
    THEN [1 .. len -> RawVals]
    ELSE {[k \in 1 .. len |-> RawAt(h[id].seed, h[id].pos + k)]}

Randint(raw, n) == (raw * n) \div Resolution

\* ---------------------------------------------------------------- floats
Float(a, b) == [num |-> a, den |-> b]
IsNaN(a) == a.den = 0 /\ a.num = 0

FLess(a, b) ==
    /\ ~IsNaN(a)
    /\ ~IsNaN(b)
    /\ IF a.den = 0 THEN a.num < 0 /\ ~(b.den = 0 /\ b.num < 0)
       ELSE IF b.den = 0 THEN b.num > 0
       ELSE a.num * b.den < b.num * a.den

FEq(a, b) ==
    /\ ~IsNaN(a)
    /\ ~IsNaN(b)
    /\ IF a.den = 0 \/ b.den = 0 THEN a = b
       ELSE a.num * b.den = b.num * a.den

FLeq(a, b) == FLess(a, b) \/ FEq(a, b)

Zero == Float(0, 1)
One == Float(1, 1)

FMulInt(k, a) == Float(k * a.num, a.den)
FAdd(a, b) == Float(a.num * b.den + b.num * a.den, a.den * b.den)
FMax(a, b) == IF FLess(a, b) THEN b ELSE a
\* int(x) for a finite x >= 0
IntOf(a) == a.num \div a.den

\* ------------------------------------------------------- argument values
NoValue == [type |-> "unset", num |-> 0, den |-> 0]
IntArg(k) == [type |-> "int", num |-> k, den |-> 1]
FloatArg(a, b) == [type |-> "float", num |-> a, den |-> b]
OtherArg == [type |-> "str", num |-> 0, den |-> 0]
AsFloat(v) == Float(v.num, v.den)

RsNone == [kind |-> "none", seed |-> 0]
RsInt(s) == [kind |-> "int", seed |-> s]
RsObj == [kind |-> "obj", seed |-> 0]

MeanBlockSizes ==
    {IntArg(k) : k \in 0 .. MaxN}
      \cup {FloatArg(-1, 2), FloatArg(0, 1), FloatArg(1, 4), FloatArg(1, 2),
            FloatArg(1, 1), FloatArg(3, 2), FloatArg(1, 0), OtherArg}

TestRatios ==
    {FloatArg(-1, 2), FloatArg(0, 1), FloatArg(1, 5), FloatArg(1, 2),
     FloatArg(3, 4), FloatArg(1, 1), FloatArg(3, 2), FloatArg(1, 0),
     FloatArg(-1, 0), FloatArg(0, 0)}

RandomStates == {RsNone, RsObj} \cup {RsInt(s) : s \in 0 .. MaxSeed}

\* args: the constructor call; cv: the splitter object; rng: the RandomState
\* objects; inv: the generators split returned; oracle: the raw values the
\* generator handed to the latest _select_train_indices call; circ, starts:
\* the generators of CircularCV._iter_test_indices and test_split_starts
VARIABLES args, cv, rng, inv, oracle, circ, starts

vars == <<args, cv, rng, inv, oracle, circ, starts>>

\* ------------------------------------------------------------ constructors
NewObject ==
    [status |-> "new", error |-> "none", n_splits |-> -1,
     random_state |-> RsNone, mean_block_size |-> NoValue, test_ratio |-> NoValue]

BaseInit(self, a) ==
    [self EXCEPT !.n_splits = a.n_splits, !.random_state = a.random_state]

Raise(self, err) == [self EXCEPT !.status = "failed", !.error = err]

BootstrapCVInit(self, a) ==
    [BaseInit(self, a) EXCEPT !.status = "ready"]

StationaryBootstrapCVInit(self, a) ==
    LET s == BaseInit(self, a)
        m == a.mean_block_size
    IN  IF m.type = "int"
        THEN IF m.num < 2 THEN Raise(s, "ValueError")
             ELSE [s EXCEPT !.mean_block_size = m, !.status = "ready"]
        ELSE IF m.type = "float"
        THEN IF FLeq(AsFloat(m), Zero) \/ FLeq(One, AsFloat(m))
             THEN Raise(s, "ValueError")
             ELSE [s EXCEPT !.mean_block_size = m, !.status = "ready"]
        ELSE Raise(s, "TypeError")

\* "%d" % x : the error raised by the formatting itself, or "none"
FormatD(x) ==
    IF IsNaN(x) THEN "ValueError"
    ELSE IF x.den = 0 THEN "OverflowError"
    ELSE "none"

CircularCVInit(self, a) ==
    LET r == AsFloat(a.test_ratio)
    IN  IF ~(FLess(Zero, r) /\ FLess(r, One))
        THEN IF FormatD(r) = "none" THEN Raise(self, "ValueError")
             ELSE Raise(self, FormatD(r))
        ELSE [self EXCEPT !.test_ratio = a.test_ratio, !.n_splits = a.n_splits,
                          !.status = "ready"]

Construct ==
    /\ cv.status = "new"
    /\ cv' = CASE args.cls = "BootstrapCV" -> BootstrapCVInit(cv, args)
               [] args.cls = "StationaryBootstrapCV" -> StationaryBootstrapCVInit(cv, args)
               [] OTHER -> CircularCVInit(cv, args)
    /\ UNCHANGED <<args, rng, inv, oracle, circ, starts>>

\* ------------------------------------------------------------------- Init
IdleInvocation ==
    [pc |-> "idle", n |-> 0, ylen |-> -1, err |-> "none", i |-> 0, emitted |-> 0,
     rs |-> NoGen, train |-> <<>>, test |-> <<>>, steps |-> <<>>]

IdleCirc ==
    [pc |-> "idle", n |-> 0, k |-> 0, test_start |-> 0, test_end |-> 0,
     test_indices |-> <<>>]

IdleStarts == [pc |-> "idle", n |-> 0, k |-> 0, start |-> 0]

Args(c, k, r, m, t) ==
    [cls |-> c, n_splits |-> k, random_state |-> r, mean_block_size |-> m,
     test_ratio |-> t]

ArgValues ==
    {Args("BootstrapCV", k, r, NoValue, NoValue) :
        k \in 0 .. MaxSplits, r \in RandomStates}
      \cup {Args("StationaryBootstrapCV", k, r, m, NoValue) :
              k \in 0 .. MaxSplits, r \in RandomStates, m \in MeanBlockSizes}
      \cup {Args("CircularCV", k, RsNone, NoValue, t) :
              k \in 1 .. MaxCircSplits, t \in TestRatios}

Init ==
    /\ args \in ArgValues
    /\ cv = NewObject
    /\ rng \in {[id \in 0 .. 2 |-> IF id = ExtObj /\ args.random_state = RsObj
                                   THEN RandomState(s) ELSE Unseeded] :
                  s \in 0 .. MaxSeed}
    /\ inv = [g \in Invocations |-> IdleInvocation]
    /\ oracle = <<>>
    /\ circ = IdleCirc
    /\ starts = IdleStarts

\* ------------------------------------------------- train-selection policies
\* A selection is [train, steps, used]: the indices, per position the raw
\* uniform draw u and raw randint draw r taken for it (NoDraw: none), and the
\* number of draws taken from the oracle o.
NoDraw == -1

EmptySelection == [train |-> <<>>, steps |-> <<>>, used |-> 0]

\* BootstrapCV._select_train_indices: random_state.randint(n, size=n)
RECURSIVE RandintArray(_, _, _, _)
RandintArray(n, k, o, st) ==
    IF k = 0 THEN st
    ELSE LET r == o[st.used + 1]
         IN  RandintArray(n, k - 1, o,
                 [train |-> Append(st.train, Randint(r, n)),
                  steps |-> Append(st.steps, [u |-> NoDraw, r |-> r]),
                  used |-> st.used + 1])

\* the mean block size the walk uses: n * f when the stored value is < 1
ResolveMeanBlockSize(mean_block_size, n) ==
    IF FLess(AsFloat(mean_block_size), One)
    THEN FMulInt(n, AsFloat(mean_block_size))
    ELSE AsFloat(mean_block_size)

\* random_state.uniform() <= 1.0 / mean_block_size, for uniform() = raw / Resolution
StartsNewBlock(raw, m) == raw * m.num <= Resolution * m.den

\* variant: the wrap test off by one (idx > n_samples)
ContinueBlockNoWrap(idx, n) == IF idx + 1 > n THEN 0 ELSE idx + 1

\* idx += 1; if idx >= n_samples: idx = 0
ContinueBlock(idx, n) == IF idx + 1 >= n THEN 0 ELSE idx + 1

\* StationaryBootstrapCV._select_train_indices, from loop index i on
RECURSIVE StationaryWalk(_, _, _, _, _, _)
StationaryWalk(n, m, i, idx, o, st) ==
    IF i = n THEN st
    ELSE IF i = 0
    THEN LET r == o[st.used + 1]
         IN  StationaryWalk(n, m, 1, Randint(r, n), o,
                 [train |-> Append(st.train, Randint(r, n)),
                  steps |-> Append(st.steps, [u |-> NoDraw, r |-> r]),
                  used |-> st.used + 1])
    ELSE LET u == o[st.used + 1]
         IN  IF StartsNewBlock(u, m)
             THEN LET r == o[st.used + 2]
                  IN  StationaryWalk(n, m, i + 1, Randint(r, n), o,
                          [train |-> Append(st.train, Randint(r, n)),
                           steps |-> Append(st.steps, [u |-> u, r |-> r]),
                           used |-> st.used + 2])
             ELSE StationaryWalk(n, m, i + 1, ContinueBlock(idx, n), o,
                      [train |-> Append(st.train, ContinueBlock(idx, n)),
                       steps |-> Append(st.steps, [u |-> u, r |-> NoDraw]),
                       used |-> st.used + 1])

\* the most draws one call of _select_train_indices can take
MaxDraws(self, n) == IF self.mean_block_size.type = "unset" THEN n ELSE 2 * n - 1

\* variant: a policy that always selects every index once
SelectTrainDegenerate(self, n, o) ==
    [train |-> [k \in 1 .. n |-> k - 1],
     steps |-> [k \in 1 .. n |-> [u |-> NoDraw, r |-> o[k]]], used |-> n]

\* self._select_train_indices(n, rs), rs delivering o
SelectTrainIndices(self, n, o) ==
    IF self.mean_block_size.type = "unset"
    THEN RandintArray(n, n, o, EmptySelection)
    ELSE StationaryWalk(n, ResolveMeanBlockSize(self.mean_block_size, n), 0, 0, o,
                        EmptySelection)

\* the generator after taking used draws
Advance(id, h, used) ==
    IF id = Entropy THEN h ELSE [h EXCEPT ![id].pos = @ + used]

\* ----------------------------------------------------- _BaseBootstrapCV.split
Range(s) == {s[k] : k \in 1 .. Len(s)}

Arange(n) == [k \in 1 .. n |-> k - 1]

\* variant: the mask is never cleared
TestIndicesUnmasked(n, train) == Arange(n)

\* test_mask = ones; test_mask[train] = False; test = indices[test_mask]
TestIndices(n, train) ==
    LET test_mask == [k \in 0 .. (n - 1) |-> k \notin Range(train)]
        keep(k) == test_mask[k]
    IN  SelectSeq(Arange(n), keep)

\* variant: a single sample is let through (n < 1)
ValidateLenient(n, ylen) ==
    IF ylen # -1 /\ n # ylen THEN "length_mismatch"
    ELSE IF n < 1 THEN "too_short"
    ELSE "none"

\* the length checks at the head of split: the error raised, or "none"
Validate(n, ylen) ==
    IF ylen # -1 /\ n # ylen THEN "length_mismatch"
    ELSE IF n < 2 THEN "too_short"
    ELSE "none"

\* variant: a seeded generator is carried over from the other invocation
CheckRandomStateCached(g, random_state, h) ==
    IF random_state.kind = "none" THEN [id |-> Entropy, heap |-> h]
    ELSE IF random_state.kind = "int"
    THEN [id |-> g,
          heap |-> [h EXCEPT ![g] = IF h[3 - g] # Unseeded THEN h[3 - g]
                                    ELSE RandomState(random_state.seed)]]
    ELSE [id |-> ExtObj, heap |-> h]

\* variant: the caller's RandomState object is copied
CheckRandomStateCopy(g, random_state, h) ==
    IF random_state.kind = "none" THEN [id |-> Entropy, heap |-> h]
    ELSE IF random_state.kind = "int"
    THEN [id |-> g, heap |-> [h EXCEPT ![g] = RandomState(random_state.seed)]]
    ELSE [id |-> g, heap |-> [h EXCEPT ![g] = h[ExtObj]]]

\* check_random_state(self.random_state) in invocation g: [id, heap]
CheckRandomState(g, random_state, h) ==
    IF random_state.kind = "none" THEN [id |-> Entropy, heap |-> h]
    ELSE IF random_state.kind = "int"
    THEN [id |-> g, heap |-> [h EXCEPT ![g] = RandomState(random_state.seed)]]
    ELSE [id |-> ExtObj, heap |-> h]

IsBootstrapFamily == args.cls \in {"BootstrapCV", "StationaryBootstrapCV"}

\* split(X, y) and the generator's first steps up to the for loop.  A second
\* generator is only followed for a reproducible source (a seed or a
\* RandomState object); numpy's global generator shares nothing with it.
StartSplit(g) ==
    /\ cv.status = "ready"
    /\ IsBootstrapFamily
    /\ inv[g].pc = "idle"
    /\ g = 2 => cv.random_state.kind # "none"
    /\ \E n \in 0 .. MaxN : \E ylen \in {-1, n, n + 1} :
         LET e == Validate(n, ylen)
             c == CheckRandomState(g, cv.random_state, rng)
         IN  IF e # "none"
             THEN /\ inv' = [inv EXCEPT ![g] = [@ EXCEPT !.pc = "error", !.err = e,
                                                         !.n = n, !.ylen = ylen]]
                  /\ rng' = rng
             ELSE /\ inv' = [inv EXCEPT ![g] =
                               [@ EXCEPT !.pc = IF cv.n_splits > 0 THEN "loop" ELSE "done",
                                         !.n = n, !.ylen = ylen, !.rs = c.id]]
                  /\ rng' = c.heap
    /\ UNCHANGED <<args, cv, oracle, circ, starts>>

\* if len(test) > 0
AcceptTest(test) == Len(test) > 0

\* one pass of the body of "while True".  Of the oracles that agree on the
\* draws taken, the one with zeros behind them stands for all.
Attempt(g) ==
    /\ inv[g].pc = "loop"
    /\ IF inv[g].rs = Entropy THEN TRUE ELSE rng[inv[g].rs].pos < MaxPos
    /\ oracle' \in Oracles(inv[g].rs, rng, MaxDraws(cv, inv[g].n))
    /\ \E o \in {oracle'} :
         LET sel == SelectTrainIndices(cv, inv[g].n, o)
             test == TestIndices(inv[g].n, sel.train)
         IN  /\ inv[g].rs = Entropy =>
                  \A k \in (sel.used + 1) .. MaxDraws(cv, inv[g].n) : o[k] = 0
             /\ inv' = [inv EXCEPT ![g] =
                          [@ EXCEPT !.train = sel.train, !.steps = sel.steps,
                                    !.test = test,
                                    !.pc = IF AcceptTest(test) THEN "yielded" ELSE "rejected",
                                    !.emitted = IF AcceptTest(test) THEN @ + 1 ELSE @]]
             /\ rng' = Advance(inv[g].rs, rng, sel.used)
    /\ UNCHANGED <<args, cv, circ, starts>>

\* the test set was empty: "while True" goes round again
Retry(g) ==
    /\ inv[g].pc = "rejected"
    /\ inv' = [inv EXCEPT ![g] =
                 [@ EXCEPT !.train = <<>>, !.test = <<>>, !.steps = <<>>, !.pc = "loop"]]
    /\ oracle' = <<>>
    /\ UNCHANGED <<args, cv, rng, circ, starts>>

\* the generator is resumed after a yield: break, then the next i of the for loop
Resume(g) ==
    /\ inv[g].pc = "yielded"
    /\ inv' = [inv EXCEPT ![g] =
                 [@ EXCEPT !.i = @ + 1, !.train = <<>>, !.test = <<>>, !.steps = <<>>,
                           !.pc = IF inv[g].i + 1 < cv.n_splits THEN "loop" ELSE "done"]]
    /\ oracle' = <<>>
    /\ UNCHANGED <<args, cv, rng, circ, starts>>

\* ------------------------------------------------------------- CircularCV
\* _n_samples(X, y); a length of -1 is None
NSamples(xlen, ylen) ==
    IF xlen # -1
    THEN IF ylen # -1 /\ xlen # ylen THEN [err |-> "ValueError", n |-> 0]
         ELSE [err |-> "none", n |-> xlen]
    ELSE IF ylen # -1 THEN [err |-> "none", n |-> ylen]
    ELSE [err |-> "ValueError", n |-> 0]

\* the (start, end) pair _test_split_bounds yields for split
TestSplitBounds(self, n_samples, split) ==
    LET step == Float(n_samples, self.n_splits)
        test_size == FMax(One, FMulInt(n_samples, AsFloat(self.test_ratio)))
        split_start == FMulInt(split, step)
    IN  [start |-> IntOf(split_start), end |-> IntOf(FAdd(split_start, test_size))]

\* np.roll(a, shift): the element at i moves to (i + shift) mod n
Roll(a, shift) ==
    [k \in 1 .. Len(a) |-> a[((k - 1 - shift) % Len(a)) + 1]]

\* a[:stop] for stop >= 0
Prefix(a, stop) == SubSeq(a, 1, IF stop < Len(a) THEN stop ELSE Len(a))

\* variant: the window is clipped at the end of the data instead of wrapping
RolledWindowClipped(n_samples, test_start, test_end) ==
    SubSeq(Arange(n_samples), test_start + 1,
           IF test_end < n_samples THEN test_end ELSE n_samples)

\* np.roll(data_indices, -test_start)[: test_end - test_start]
RolledWindow(n_samples, test_start, test_end) ==
    Prefix(Roll(Arange(n_samples), -test_start), test_end - test_start)

\* _iter_test_indices(X, y) is called and its generator started
IterTestIndices ==
    /\ cv.status = "ready"
    /\ args.cls = "CircularCV"
    /\ circ.pc = "idle"
    /\ \E xlen \in -1 .. MaxCircN : \E ylen \in {-1, xlen + 1, IF xlen = -1 THEN 0 ELSE xlen} :
         LET r == NSamples(xlen, ylen)
         IN  circ' = [circ EXCEPT !.pc = IF r.err = "none" THEN "running" ELSE "error",
                                  !.n = r.n]
    /\ UNCHANGED <<args, cv, rng, inv, oracle, starts>>

\* the generator of _iter_test_indices runs to its next yield, or ends
NextTestIndices ==
    /\ circ.pc \in {"running", "yielded"}
    /\ IF circ.k < cv.n_splits
       THEN LET b == TestSplitBounds(cv, circ.n, circ.k)
            IN  circ' = [circ EXCEPT !.pc = "yielded", !.k = @ + 1,
                                     !.test_start = b.start, !.test_end = b.end,
                                     !.test_indices = RolledWindow(circ.n, b.start, b.end)]
       ELSE circ' = [circ EXCEPT !.pc = "done"]
    /\ UNCHANGED <<args, cv, rng, inv, oracle, starts>>

\* test_split_starts(X) is called
TestSplitStarts ==
    /\ cv.status = "ready"
    /\ args.cls = "CircularCV"
    /\ starts.pc = "idle"
    /\ \E xlen \in -1 .. MaxCircN :
         LET r == NSamples(xlen, -1)
         IN  starts' = [starts EXCEPT !.pc = IF r.err = "none" THEN "running" ELSE "error",
                                      !.n = r.n]
    /\ UNCHANGED <<args, cv, rng, inv, oracle, circ>>

\* the generator test_split_starts returned runs to its next yield, or ends
NextSplitStart ==
    /\ starts.pc \in {"running", "yielded"}
    /\ IF starts.k < cv.n_splits
       THEN starts' = [starts EXCEPT !.pc = "yielded", !.k = @ + 1,
                                     !.start = TestSplitBounds(cv, starts.n, starts.k).start]
       ELSE starts' = [starts EXCEPT !.pc = "done"]
    /\ UNCHANGED <<args, cv, rng, inv, oracle, circ>>

Next ==
    \/ Construct
    \/ \E g \in Invocations : StartSplit(g)
    \/ \E g \in Invocations : Attempt(g)
    \/ \E g \in Invocations : Retry(g)
    \/ \E g \in Invocations : Resume(g)
    \/ IterTestIndices
    \/ NextTestIndices
    \/ TestSplitStarts
    \/ NextSplitStart

Spec == Init /\ [][Next]_vars

\* ---------------------------------------------------------- fair random draws
\* One consumer runs one generator of a bootstrap-family splitter on numpy's
\* entropy-seeded generator to exhaustion: it keeps calling next(), and a
\* selection that is possible at every attempt is eventually drawn.
FairInit ==
    /\ Init
    /\ args.cls \in {"BootstrapCV", "StationaryBootstrapCV"}
    /\ args.random_state = RsNone

AttemptYield(g) == Attempt(g) /\ inv'[g].pc = "yielded"

FairNext ==
    \/ Construct
    \/ StartSplit(1)
    \/ Attempt(1)
    \/ Retry(1)
    \/ Resume(1)

FairSpec ==
    /\ FairInit
    /\ [][FairNext]_vars
    /\ WF_vars(Retry(1))
    /\ WF_vars(Resume(1))
    /\ SF_vars(AttemptYield(1))

\* ------------------------------------------------------------------ claims
IsAscending(s) == \A a, b \in 1 .. Len(s) : a < b => s[a] < s[b]

\* C1: every pair a bootstrap-family split yields has a non-empty test that is
\* exactly the ascending, duplicate-free list of the indices of 0..n-1 not in
\* train; split never yields more than n_splits pairs, and exactly n_splits
\* once it is exhausted.
C1_SplitPairsWellFormed ==
    \A g \in Invocations :
        /\ inv[g].pc # "idle" => inv[g].emitted <= cv.n_splits
        /\ inv[g].pc = "done" => inv[g].emitted = cv.n_splits
        /\ inv[g].pc = "yielded" =>
             /\ inv[g].n >= 2
             /\ Len(inv[g].test) > 0
             /\ IsAscending(inv[g].test)
             /\ Range(inv[g].test) = (0 .. (inv[g].n - 1)) \ Range(inv[g].train)

C1_Witness ==
    \E g \in Invocations :
        /\ inv[g].pc = "yielded"
        /\ inv[g].n = 3
        /\ cv.n_splits = 2
        /\ inv[g].emitted = 2
        /\ Len(inv[g].test) = 2

\* C2: a split invoked with n < 2, or with labels whose length differs from n,
\* raises before any pair is yielded and never emits a pair.
C2_InvalidInputRaisesFirst ==
    \A g \in Invocations :
        (/\ inv[g].pc # "idle"
         /\ \/ inv[g].n < 2
            \/ inv[g].ylen # -1 /\ inv[g].ylen # inv[g].n)
          => /\ inv[g].pc = "error"
             /\ inv[g].emitted = 0
             /\ inv[g].train = <<>>
             /\ inv[g].rs = NoGen

C2_Witness ==
    /\ inv[1].pc = "error" /\ inv[1].n = 1 /\ inv[1].ylen = -1
    /\ inv[2].pc = "error" /\ inv[2].n = 3 /\ inv[2].ylen = 4

\* C3: under an integer seed, two invocations of split on the same number of
\* samples that have each yielded their j-th pair hold the same pair, however
\* many draws either has taken (rejected attempts included).
C3_SeedDeterminism ==
    (/\ cv.random_state.kind = "int"
     /\ inv[1].pc = "yielded"
     /\ inv[2].pc = "yielded"
     /\ inv[1].n = inv[2].n
     /\ inv[1].emitted = inv[2].emitted)
      => /\ inv[1].train = inv[2].train
         /\ inv[1].test = inv[2].test
         /\ rng[1] = rng[2]

\* both runs hold their second pair, a rejected attempt behind them
C3_Witness ==
    /\ cv.random_state.kind = "int"
    /\ inv[1].pc = "yielded"
    /\ inv[2].pc = "yielded"
    /\ inv[1].n = inv[2].n
    /\ inv[1].emitted = 2
    /\ inv[2].emitted = 2
    /\ args.cls = "BootstrapCV"
    /\ rng[1].pos > 2 * inv[1].n

NumDraws(steps) ==
    Cardinality({k \in 1 .. Len(steps) : steps[k].u # NoDraw})
      + Cardinality({k \in 1 .. Len(steps) : steps[k].r # NoDraw})

RECURSIVE FlatDraws(_)
FlatDraws(steps) ==
    IF steps = <<>> THEN <<>>
    ELSE (IF Head(steps).u # NoDraw THEN <<Head(steps).u>> ELSE <<>>)
           \o (IF Head(steps).r # NoDraw THEN <<Head(steps).r>> ELSE <<>>)
           \o FlatDraws(Tail(steps))

\* the claim's p: u / Resolution <= 1 / m, m the integer or f * n
C6_AtMostP(u, m, n) ==
    IF m.type = "int" THEN u * m.num <= Resolution
    ELSE u * n * m.num <= Resolution * m.den

\* C6: a StationaryBootstrapCV train selection has length n with entries in
\* 0..n-1; train[0] is a fresh draw, and at each later position a fresh draw is
\* taken exactly when the uniform draw there is <= p, else the entry is the
\* previous one plus 1 modulo n.
C6_StationaryWalkShape ==
    \A g \in Invocations :
        (args.cls = "StationaryBootstrapCV" /\ inv[g].pc \in {"yielded", "rejected"}) =>
          LET n == inv[g].n
              t == inv[g].train
              st == inv[g].steps
          IN  /\ Len(t) = n
              /\ Len(st) = n
              /\ \A k \in 1 .. n : t[k] \in 0 .. (n - 1)
              /\ st[1].u = NoDraw
              /\ st[1].r \in RawVals
              /\ t[1] = (st[1].r * n) \div Resolution
              /\ \A k \in 2 .. n :
                   /\ st[k].u \in RawVals
                   /\ st[k].r # NoDraw <=> C6_AtMostP(st[k].u, cv.mean_block_size, n)
                   /\ IF st[k].r # NoDraw
                      THEN st[k].r \in RawVals /\ t[k] = (st[k].r * n) \div Resolution
                      ELSE t[k] = (t[k - 1] + 1) % n

\* a yielded selection in which a continued block wraps from n-1 to 0
C6_Witness ==
    \E g \in Invocations :
        /\ args.cls = "StationaryBootstrapCV"
        /\ inv[g].pc = "yielded"
        /\ \E k \in 2 .. Len(inv[g].train) :
             /\ inv[g].steps[k].r = NoDraw
             /\ inv[g].train[k - 1] = inv[g].n - 1
             /\ inv[g].train[k] = 0

IsAttemptStep(g) == inv[g].pc = "loop" /\ inv'[g].pc \in {"yielded", "rejected"}

\* C7: configured with a RandomState object, split draws from that object: no
\* copy is made and it is never reseeded; each attempt takes its draws from the
\* object's current position and advances it by their number, and no other
\* step (a later split invocation included) moves it.
C7_SharedStateAdvances ==
    [][cv.random_state.kind = "obj" =>
         /\ rng'[ExtObj].seed = rng[ExtObj].seed
         /\ \A g \in Invocations :
              /\ rng'[g] = Unseeded
              /\ inv'[g].rs \in {NoGen, ExtObj}
              /\ IsAttemptStep(g) =>
                   /\ rng'[ExtObj].pos = rng[ExtObj].pos + NumDraws(inv'[g].steps)
                   /\ \A k \in 1 .. NumDraws(inv'[g].steps) :
                        FlatDraws(inv'[g].steps)[k]
                          = RawAt(rng[ExtObj].seed, rng[ExtObj].pos + k)
         /\ (\A g \in Invocations : ~IsAttemptStep(g)) =>
              rng'[ExtObj].pos = rng[ExtObj].pos]_vars

\* two invocations interleaved on the one object, which has delivered both
\* their draws
C7_Witness ==
    /\ cv.random_state.kind = "obj"
    /\ inv[1].pc = "yielded"
    /\ inv[2].pc = "yielded"
    /\ inv[1].emitted = 2
    /\ inv[2].emitted = 1
    /\ rng[ExtObj].pos >= 3 * inv[1].n

\* floor(max(1, n * test_ratio))
C4_WindowLength(n, r) == IF n * r.num >= r.den THEN (n * r.num) \div r.den ELSE 1

\* C4: every test window CircularCV yields has length floor(max(1, n * test_ratio)),
\* whatever the split index.
C4_UniformWindowLength ==
    (circ.pc = "yielded" /\ circ.n >= 1) =>
        Len(circ.test_indices) = C4_WindowLength(circ.n, cv.test_ratio)

\* C5: the test indices of split j are s, s+1, ..., s+L-1 modulo n in that
\* order, s = floor(j * n / n_splits) being the j-th value of test_split_starts
\* and L = test_end - test_start; they lie in 0..n-1 and none repeats.  For
\* n = 6, test_ratio = 0.5, n_splits = 3: (0,1,2), (2,3,4), (4,5,0).
C5_CircularWindow ==
    /\ (circ.pc = "yielded" /\ circ.n >= 1) =>
         LET j == circ.k - 1
             n == circ.n
             s == (j * n) \div cv.n_splits
             L == circ.test_end - circ.test_start
             w == circ.test_indices
         IN  /\ circ.test_start = s
             /\ Len(w) = L
             /\ \A k \in 1 .. Len(w) : w[k] = (s + k - 1) % n /\ w[k] \in 0 .. (n - 1)
             /\ Cardinality(Range(w)) = Len(w)
             /\ (n = 6 /\ cv.n_splits = 3 /\ cv.test_ratio = FloatArg(1, 2)) =>
                  w = CASE j = 0 -> <<0, 1, 2>>
                        [] j = 1 -> <<2, 3, 4>>
                        [] OTHER -> <<4, 5, 0>>
    /\ starts.pc = "yielded" =>
         starts.start = ((starts.k - 1) * starts.n) \div cv.n_splits

C5_Witness ==
    /\ circ.pc = "yielded"
    /\ circ.n = 6
    /\ cv.n_splits = 3
    /\ cv.test_ratio = FloatArg(1, 2)
    /\ circ.test_indices = <<4, 5, 0>>
    /\ starts.pc = "yielded"
    /\ starts.n = 6
    /\ starts.start = 4

C8_StrictlyBetween(x) == FLess(Zero, x) /\ FLess(x, One)

\* C8: StationaryBootstrapCV raises a value error for an integer mean_block_size
\* < 2 and for a float <= 0 or >= 1, a type error for any other type, and stores
\* unchanged every integer >= 2 and every float in (0,1); CircularCV raises a
\* value error for every test_ratio not in (0,1) and accepts every one in
\* (0,1); a splitter whose construction failed never yields a split.
C8_ConstructionValidation ==
    /\ (cv.status # "new" /\ args.cls = "StationaryBootstrapCV") =>
         LET m == args.mean_block_size
             f == AsFloat(m)
         IN  /\ (m.type = "int" /\ m.num < 2) =>
                  cv.status = "failed" /\ cv.error = "ValueError"
             /\ (m.type = "float" /\ (FLeq(f, Zero) \/ FLeq(One, f))) =>
                  cv.status = "failed" /\ cv.error = "ValueError"
             /\ m.type \notin {"int", "float"} =>
                  cv.status = "failed" /\ cv.error = "TypeError"
             /\ ((m.type = "int" /\ m.num >= 2) \/ (m.type = "float" /\ C8_StrictlyBetween(f))) =>
                  cv.status = "ready" /\ cv.mean_block_size = m
    /\ (cv.status # "new" /\ args.cls = "CircularCV") =>
         IF C8_StrictlyBetween(AsFloat(args.test_ratio))
         THEN cv.status = "ready" /\ cv.test_ratio = args.test_ratio
         ELSE cv.status = "failed" /\ cv.error = "ValueError"
    /\ cv.status = "failed" =>
         /\ \A g \in Invocations : inv[g] = IdleInvocation
         /\ circ = IdleCirc
         /\ starts = IdleStarts

\* C9: at every pass of the rejection loop some train selection leaves a
\* non-empty test set; the loop retries only on an empty test set and emits one
\* pair per iteration; under fair draws every iteration emits its pair and the
\* split sequence ends after the n_splits-th pair.
C9_RejectionLoopTerminates ==
    /\ [](inv[1].pc = "loop" =>
            \E o \in Oracles(inv[1].rs, rng, MaxDraws(cv, inv[1].n)) :
                Len(TestIndices(inv[1].n, SelectTrainIndices(cv, inv[1].n, o).train)) > 0)
    /\ [][/\ (inv[1].pc = "loop" /\ inv'[1].pc = "rejected") => Len(inv'[1].test) = 0
          /\ (inv[1].pc = "loop" /\ inv'[1].pc = "yielded") =>
               /\ Len(inv'[1].test) > 0
               /\ inv'[1].emitted = inv[1].i + 1
          /\ inv'[1].i # inv[1].i => inv[1].pc = "yielded" /\ inv'[1].i = inv[1].i + 1]_vars
    /\ (inv[1].pc \in {"loop", "rejected"}) ~> (inv[1].pc = "yielded")
    /\ (inv[1].pc \in {"loop", "rejected", "yielded"}) ~>
         (inv[1].pc = "done" /\ inv[1].emitted = cv.n_splits)

\* a retry within the second iteration
C9_Witness ==
    /\ inv[1].pc = "rejected"
    /\ inv[1].emitted = 1
    /\ cv.n_splits = 2

\* C10: for every accepted StationaryBootstrapCV and every n >= 2 the resolved
\* mean block size is at least 1, so that p = 1 / mean_block_size is in (0, 1].
C10_MeanBlockSizeAtLeastOne ==
    \A g \in Invocations :
        (/\ args.cls = "StationaryBootstrapCV"
         /\ cv.status = "ready"
         /\ inv[g].pc \in {"yielded", "rejected"})
          => LET m == ResolveMeanBlockSize(cv.mean_block_size, inv[g].n)
             IN  m.num >= m.den
====
